---- MODULE Spec2Model ----
(***************************************************************************)
(* AllyWrapper.vue: a labelled form-field wrapper.  The script block       *)
(* resolves its props, injects an optional AllyForm context, registers     *)
(* two watchers (errorMessage, immediate; id) and an unmount hook that     *)
(* report the field's error state to that context, exposes a writable      *)
(* computed `value`, and computes the ids handed to the control slot.      *)
(*                                                                         *)
(* Two instances of the component are driven by the same parent with the   *)
(* same props: "inForm" is rendered below an AllyForm provider,            *)
(* "standalone" is not (inject returns null).                              *)
(*                                                                         *)
(* Strings are TLA+ strings.  An optional value (a prop that may be        *)
(* undefined, a computed that may return undefined) is a sequence of       *)
(* length 0 or 1: <<>> is undefined, <<s>> is the string s.                *)
(* Props that only decorate the template (label, required, autocomplete)   *)
(* take part in no callback and in no id, and are left out.                *)
(***************************************************************************)
EXTENDS Naturals, Sequences, FiniteSets, TLC

VARIABLES
    phase,       \* "created" (vnode built, setup not run), "mounted", "unmounted"
    vnode,       \* the props the parent passes (before defaults are applied)
    slots,       \* [helptext |-> whether the parent fills the helptext slot]
    calls,       \* per instance: the calls made on the injected context, in order
    emitted,     \* per instance: the events emitted, in order
    rendered,    \* per instance: the ids the last render bound (optional)
    describedByCache, \* per instance: the computed describedBy: its cached value and whether it tracks props.id
    reactions,   \* number of prop updates delivered so far
    last,        \* history: the operation that produced this state, and the state before it
    errHist,     \* history: the (id, errorMessage) pairs of the initial run and of every errorMessage change
    idChanges    \* history: number of prop updates that changed id

vars == <<phase, vnode, slots, calls, emitted, rendered, describedByCache, reactions,
          last, errHist, idChanges>>

(***************************************************************************)
(* Bounds and input sets                                                   *)
(***************************************************************************)
MaxReactions == 2
MaxEmits == 1

Undefined == <<>>
Some(s) == <<s>>

Fields == {"inForm", "standalone"}

Ids == {"", "f", "g"}
RawMessages == {Undefined, Some(""), Some("required"), Some("invalid")}
Values == {"", "x"}
Orders == {"errorMessage-first", "id-first"}

\* inputs of the error-reporting specification
ProtocolArias == {Undefined}
ProtocolReserve == {Undefined}
\* inputs of the describedBy specification
DescribedByIds == {"", "f"}
DescribedByMessages == {Undefined, Some("required"), Some("invalid")}
DescribedByArias ==
    {Undefined, Some(""), Some("ext1"), Some("f-label"), Some("f-help"),
     Some("f-help ext1"), Some("ext1 f-label")}
DescribedByReserve == {Undefined, Some(FALSE)}

VNodes(ids, msgs, vals, arias, reserves) ==
    [id : ids, errorMessage : msgs, modelValue : vals, ariaDescribedby : arias,
     reserveErrorSpace : reserves]

(***************************************************************************)
(* Props                                                                   *)
(***************************************************************************)
\* withDefaults(defineProps<...>(), {...}): an absent errorMessage is '', an
\* absent reserveErrorSpace is true.
withDefaults(v) ==
    [id                |-> v.id,
     modelValue        |-> v.modelValue,
     ariaDescribedby   |-> v.ariaDescribedby,
     errorMessage      |-> IF v.errorMessage = Undefined THEN "" ELSE v.errorMessage[1],
     reserveErrorSpace |-> IF v.reserveErrorSpace = Undefined THEN TRUE
                           ELSE v.reserveErrorSpace[1]]

props == withDefaults(vnode)

\* inject(AllyFormKey, null): TRUE when a provider is found, FALSE for null.
allyForm == [f \in Fields |-> f = "inForm"]

(***************************************************************************)
(* Calls on the injected context                                           *)
(***************************************************************************)
UpdateCall(fieldId, message) ==
    [op |-> "updateErrorState", fieldId |-> fieldId, message |-> message]
ClearCall(fieldId) ==
    [op |-> "clearErrorState", fieldId |-> fieldId]

\* JavaScript truthiness of a string, and `s || ''`.
Truthy(s) == s # ""
OrEmpty(s) == IF Truthy(s) THEN s ELSE ""

\* Variant: an empty message is turned into a clearErrorState.
WatchErrorMessage_ClearWhenEmpty(form, log, id, newMessage) ==
    IF form
    THEN IF Truthy(newMessage)
         THEN Append(log, UpdateCall(id, newMessage))
         ELSE Append(log, ClearCall(id))
    ELSE log

\* Variant: only a non-empty message is reported.
WatchErrorMessage_SkipEmpty(form, log, id, newMessage) ==
    IF form /\ Truthy(newMessage) THEN Append(log, UpdateCall(id, newMessage)) ELSE log

\* watch(() => props.errorMessage, (newMessage, oldMessage) => ..., { immediate: true })
\* `id` is props.id read when the callback runs.
WatchErrorMessage(form, log, id, newMessage) ==
    IF form THEN Append(log, UpdateCall(id, OrEmpty(newMessage))) ELSE log

\* Variant: the old id is cleared whether or not there is an error.
WatchId_AlwaysClear(form, log, newId, oldId, errorMessage) ==
    LET cleared == IF form /\ Truthy(oldId) THEN Append(log, ClearCall(oldId)) ELSE log
    IN  IF form THEN Append(cleared, UpdateCall(newId, OrEmpty(errorMessage)))
        ELSE cleared

\* Variant: the old id is cleared but the new id is not reported.
WatchId_NoReport(form, log, newId, oldId, errorMessage) ==
    IF form /\ Truthy(oldId) /\ Truthy(errorMessage)
    THEN Append(log, ClearCall(oldId))
    ELSE log

\* watch(() => props.id, (newId, oldId) => ...)
\* `errorMessage` is props.errorMessage read when the callback runs.
WatchId(form, log, newId, oldId, errorMessage) ==
    LET cleared == IF form /\ Truthy(oldId) /\ Truthy(errorMessage)
                   THEN Append(log, ClearCall(oldId))
                   ELSE log
    IN  IF form THEN Append(cleared, UpdateCall(newId, OrEmpty(errorMessage)))
        ELSE cleared

\* Variant: an empty message is reported instead of clearing.
OnUnmounted_ReportEmpty(form, log, id) ==
    IF form THEN Append(log, UpdateCall(id, "")) ELSE log

\* Variant: the injected context is used without the null check.
OnUnmounted_NoGuard(form, log, id) ==
    Append(log, ClearCall(id))

\* onUnmounted(() => ...)
OnUnmounted(form, log, id) ==
    IF form THEN Append(log, ClearCall(id)) ELSE log

(***************************************************************************)
(* The writable computed `value`                                           *)
(***************************************************************************)
\* get: () => props.modelValue
value(p) == p.modelValue

\* Variant: the Vue 2 event name is emitted.
ValueSet_InputEvent(events, newValue) ==
    Append(events, [event |-> "input", payload |-> newValue])

\* set: (newValue) => emit('update:modelValue', newValue)
ValueSet(events, newValue) ==
    Append(events, [event |-> "update:modelValue", payload |-> newValue])

(***************************************************************************)
(* Derived ids                                                             *)
(***************************************************************************)
helpTextId(p) == p.id \o "-help"
errorTextId(p) == p.id \o "-error"
labelId(p) == p.id \o "-label"

\* computed(() => !!props.errorMessage)
isInvalid(p) == Truthy(p.errorMessage)

\* [...].filter(Boolean) on an array of optional strings: drops undefined and ''.
RECURSIVE FilterBoolean(_)
FilterBoolean(opts) ==
    IF opts = <<>> THEN <<>>
    ELSE LET o == Head(opts)
         IN  (IF o # Undefined /\ Truthy(o[1]) THEN <<o[1]>> ELSE <<>>)
             \o FilterBoolean(Tail(opts))

\* Array.from(new Set(ids)): first occurrences, in insertion order.
RECURSIVE UniqueFrom(_, _)
UniqueFrom(ids, seen) ==
    IF ids = <<>> THEN <<>>
    ELSE IF Head(ids) \in seen THEN UniqueFrom(Tail(ids), seen)
    ELSE <<Head(ids)>> \o UniqueFrom(Tail(ids), seen \cup {Head(ids)})

ArrayFromSet(ids) == UniqueFrom(ids, {})

\* Array.prototype.join(sep) on a non-empty array of strings
RECURSIVE Join(_, _)
Join(ids, sep) ==
    IF Len(ids) = 1 THEN ids[1]
    ELSE ids[1] \o sep \o Join(Tail(ids), sep)

\* The array `ids` of the describedBy getter.
DescribedByIdsArray(p, s) ==
    FilterBoolean(<<p.ariaDescribedby,
                    IF s.helptext THEN Some(helpTextId(p)) ELSE Undefined,
                    IF isInvalid(p) THEN Some(errorTextId(p)) ELSE Undefined>>)

\* const describedBy = computed(() => ...): one run of the getter
describedBy(p, s) ==
    LET ids == DescribedByIdsArray(p, s)
        uniqueIds == SelectSeq(ArrayFromSet(ids), LAMBDA id : id # labelId(p))
    IN  IF Len(uniqueIds) # 0 THEN Some(Join(uniqueIds, " ")) ELSE Undefined

\* The computed after a run of its getter.  The run reads props.ariaDescribedby
\* and isInvalid always; it reads helpTextId, errorTextId or labelId, hence
\* props.id, only when `ids` is not empty (labelId is read once per element).
\* `slots` (useSlots()) is not reactive and is never a dependency.
EvaluateDescribedBy(p, s) ==
    [value |-> describedBy(p, s), tracksId |-> DescribedByIdsArray(p, s) # <<>>]

\* Whether a prop update old -> new invalidates the cached computed.  When
\* errorMessage changes between two non-empty values, isInvalid is
\* re-evaluated to the same value; whether that invalidates describedBy
\* depends on the version of Vue the component is built with (`eager`:
\* before 3.4 a computed notifies even when its value is unchanged).
DescribedByDirty(cache, old, new, eager) ==
    \/ new.ariaDescribedby # old.ariaDescribedby
    \/ isInvalid(new) # isInvalid(old)
    \/ new.errorMessage # old.errorMessage /\ eager
    \/ new.id # old.id /\ cache.tracksId

\* <template>: the scope of the control slot and the ids of the rendered
\* regions; d is the value of the computed describedBy.
Render(p, s, d) ==
    [id          |-> p.id,
     isInvalid   |-> isInvalid(p),
     describedBy |-> d,
     labelId     |-> labelId(p),
     helpTextId  |-> IF s.helptext THEN Some(helpTextId(p)) ELSE Undefined,
     errorTextId |-> IF isInvalid(p) \/ p.reserveErrorSpace
                     THEN Some(errorTextId(p)) ELSE Undefined,
     errorText   |-> IF isInvalid(p) \/ p.reserveErrorSpace
                     THEN Some(p.errorMessage) ELSE Undefined]

(***************************************************************************)
(* Lifecycle                                                               *)
(***************************************************************************)
NoOp(op) ==
    [op |-> op, nCalls |-> 0, nEmitted |-> 0, id |-> "", errorMessage |-> "",
     modelValue |-> "", order |-> "", arg |-> ""]

InitWith(inputs, slotInputs) ==
    /\ phase = "created"
    /\ vnode \in inputs
    /\ slots \in slotInputs
    /\ calls = [f \in Fields |-> <<>>]
    /\ emitted = [f \in Fields |-> <<>>]
    /\ rendered = [f \in Fields |-> Undefined]
    /\ describedByCache = [f \in Fields |-> [value |-> Undefined, tracksId |-> FALSE]]
    /\ reactions = 0
    /\ last = NoOp("create")
    /\ errHist = <<>>
    /\ idChanges = 0

\* <script setup> runs: the immediate errorMessage watcher fires, then the
\* first render.  The id watcher is registered without `immediate`.
Setup ==
    /\ phase = "created"
    /\ phase' = "mounted"
    /\ calls' = [f \in Fields |->
                   WatchErrorMessage(allyForm[f], calls[f], props.id, props.errorMessage)]
    /\ describedByCache' = [f \in Fields |-> EvaluateDescribedBy(props, slots)]
    /\ rendered' = [f \in Fields |->
                      Some(Render(props, slots, describedByCache'[f].value))]
    /\ last' = [NoOp("mount") EXCEPT !.nCalls = Len(calls["inForm"]),
                                     !.nEmitted = Len(emitted["inForm"]),
                                     !.id = props.id,
                                     !.errorMessage = props.errorMessage,
                                     !.modelValue = props.modelValue]
    /\ errHist' = <<[id |-> props.id, errorMessage |-> props.errorMessage]>>
    /\ UNCHANGED <<vnode, slots, emitted, reactions, idChanges>>

\* The parent re-renders with new props v and slots s.  The props are
\* assigned, the watchers whose source changed run before the re-render
\* (flush 'pre'), in the order in which the parent's vnode lists the two
\* props (`order`), each reading the new props; then the template re-renders,
\* re-running the describedBy getter only if the update invalidated it.
UpdateProps(v, s, order, eager) ==
    LET old == props
        new == withDefaults(v)
        errChanged == new.errorMessage # old.errorMessage
        idChanged == new.id # old.id
        RunErr(f, log) ==
            IF errChanged
            THEN WatchErrorMessage(allyForm[f], log, new.id, new.errorMessage)
            ELSE log
        RunId(f, log) ==
            IF idChanged
            THEN WatchId(allyForm[f], log, new.id, old.id, new.errorMessage)
            ELSE log
    IN  /\ phase = "mounted"
        /\ reactions < MaxReactions
        /\ v # vnode \/ s # slots
        /\ order = "errorMessage-first" \/ (errChanged /\ idChanged)
        /\ eager \/ (errChanged /\ isInvalid(old) /\ isInvalid(new))
        /\ vnode' = v
        /\ slots' = s
        /\ calls' = [f \in Fields |->
                       IF order = "errorMessage-first"
                       THEN RunId(f, RunErr(f, calls[f]))
                       ELSE RunErr(f, RunId(f, calls[f]))]
        /\ describedByCache' = [f \in Fields |->
                                  IF DescribedByDirty(describedByCache[f], old, new, eager)
                                  THEN EvaluateDescribedBy(new, s)
                                  ELSE describedByCache[f]]
        /\ rendered' = [f \in Fields |->
                          Some(Render(new, s, describedByCache'[f].value))]
        /\ reactions' = reactions + 1
        /\ last' = [NoOp("props") EXCEPT !.nCalls = Len(calls["inForm"]),
                                         !.nEmitted = Len(emitted["inForm"]),
                                         !.id = old.id,
                                         !.errorMessage = old.errorMessage,
                                         !.modelValue = old.modelValue,
                                         !.order = order]
        /\ errHist' = IF errChanged
                      THEN Append(errHist, [id |-> new.id, errorMessage |-> new.errorMessage])
                      ELSE errHist
        /\ idChanges' = IF idChanged THEN idChanges + 1 ELSE idChanges
        /\ UNCHANGED <<phase, emitted>>

\* value.value = newValue (the control writes through the computed)
SetValue(newValue) ==
    /\ phase = "mounted"
    /\ Len(emitted["inForm"]) < MaxEmits
    /\ emitted' = [f \in Fields |-> ValueSet(emitted[f], newValue)]
    /\ last' = [NoOp("set") EXCEPT !.nCalls = Len(calls["inForm"]),
                                   !.nEmitted = Len(emitted["inForm"]),
                                   !.id = props.id,
                                   !.errorMessage = props.errorMessage,
                                   !.modelValue = props.modelValue,
                                   !.arg = newValue]
    /\ UNCHANGED <<phase, vnode, slots, calls, rendered, describedByCache, reactions,
                   errHist, idChanges>>

\* The component is unmounted: the onUnmounted hook runs, the watchers stop.
Unmount ==
    /\ phase = "mounted"
    /\ phase' = "unmounted"
    /\ calls' = [f \in Fields |-> OnUnmounted(allyForm[f], calls[f], props.id)]
    /\ rendered' = [f \in Fields |-> Undefined]
    /\ last' = [NoOp("unmount") EXCEPT !.nCalls = Len(calls["inForm"]),
                                       !.nEmitted = Len(emitted["inForm"]),
                                       !.id = props.id,
                                       !.errorMessage = props.errorMessage,
                                       !.modelValue = props.modelValue]
    /\ UNCHANGED <<vnode, slots, emitted, describedByCache, reactions, errHist, idChanges>>

(***************************************************************************)
(* Specifications                                                          *)
(***************************************************************************)
\* The error-reporting protocol: id, errorMessage and modelValue vary; the
\* helptext slot stays filled, so the cached describedBy is always current
\* and `eager` makes no difference.
Init ==
    InitWith(VNodes(Ids, RawMessages, Values, ProtocolArias, ProtocolReserve),
             {[helptext |-> TRUE]})

ProtocolUpdate ==
    \E v \in VNodes(Ids, RawMessages, Values, {vnode.ariaDescribedby},
                     {vnode.reserveErrorSpace}),
       order \in Orders :
        UpdateProps(v, slots, order, TRUE)

Next ==
    \/ Setup
    \/ ProtocolUpdate
    \/ \E newValue \in Values : SetValue(newValue)
    \/ Unmount

Spec == Init /\ [][Next]_vars

\* The describedBy computation: id, errorMessage, ariaDescribedby and the
\* helptext slot vary.
InitD ==
    InitWith(VNodes(DescribedByIds, DescribedByMessages, {""}, DescribedByArias,
                    DescribedByReserve),
             [helptext : BOOLEAN])

DescribedByUpdate ==
    \E v \in VNodes(DescribedByIds, DescribedByMessages, {""}, DescribedByArias,
                     DescribedByReserve),
       s \in [helptext : BOOLEAN], order \in Orders, eager \in BOOLEAN :
        UpdateProps(v, s, order, eager)

NextD ==
    \/ Setup
    \/ DescribedByUpdate
    \/ Unmount

SpecD == InitD /\ [][NextD]_vars

TypeOK ==
    /\ phase \in {"created", "mounted", "unmounted"}
    /\ reactions \in 0..MaxReactions + 1
    /\ \A f \in Fields : Len(emitted[f]) <= MaxEmits + 1

(***************************************************************************)
(* The aggregator the calls are addressed to (AllyForm, not part of this   *)
(* file): a map fieldId -> message.                                        *)
(***************************************************************************)
updateErrorState(map, fieldId, message) ==
    [k \in DOMAIN map \cup {fieldId} |-> IF k = fieldId THEN message ELSE map[k]]

clearErrorState(map, fieldId) ==
    [k \in DOMAIN map \ {fieldId} |-> map[k]]

RECURSIVE Aggregate(_)
Aggregate(log) ==
    IF log = <<>> THEN [k \in {} |-> ""]
    ELSE LET map == Aggregate(SubSeq(log, 1, Len(log) - 1))
             c == log[Len(log)]
         IN  IF c.op = "updateErrorState"
             THEN updateErrorState(map, c.fieldId, c.message)
             ELSE clearErrorState(map, c.fieldId)

(***************************************************************************)
(* Vocabulary of the properties                                            *)
(***************************************************************************)
Log == calls["inForm"]
\* the calls made by the operation that produced this state
Suffix == SubSeq(Log, last.nCalls + 1, Len(Log))
Range(seq) == {seq[i] : i \in DOMAIN seq}
Updates(log) == SelectSeq(log, LAMBDA c : c.op = "updateErrorState")
Clears(log) == SelectSeq(log, LAMBDA c : c.op = "clearErrorState")
Entries == Aggregate(Log)

IdChanged == last.op = "props" /\ props.id # last.id
ErrorMessageChanged == last.op = "props" /\ props.errorMessage # last.errorMessage

\* C1: mounting a field with id X and errorMessage M (possibly empty) below an
\* aggregator makes exactly one call, updateErrorState(X, M), and that call is
\* the first the field ever makes.
C1_MountReportsOnce ==
    phase # "created" =>
        /\ Len(Log) >= 1
        /\ Log[1] = UpdateCall(errHist[1].id, errHist[1].errorMessage)
        /\ last.op = "mount" => Log = <<UpdateCall(props.id, props.errorMessage)>>

C1_Witness ==
    /\ last.op = "mount"
    /\ props.id = "f"
    /\ vnode.errorMessage = Some("")
    /\ Log = <<UpdateCall("f", "")>>

\* C2: an id change A -> B (A # B, any strings) with an unchanged non-empty
\* errorMessage M makes exactly clearErrorState(A) then updateErrorState(B, M).
\* (The watcher skips the clear for the old id "", leaving the entry that the
\* mount registered under "".)
C2_AnyOldId ==
    IdChanged /\ ~ErrorMessageChanged /\ Truthy(props.errorMessage) =>
        Suffix = <<ClearCall(last.id), UpdateCall(props.id, props.errorMessage)>>

\* C3: an id change A -> B while errorMessage is empty makes
\* updateErrorState(B, "") and no clearErrorState; when the errorMessage did
\* not change in the same reaction that is the only call.
C3_EmptyMessageNoClear ==
    IdChanged /\ ~Truthy(props.errorMessage) =>
        /\ Clears(Suffix) = <<>>
        /\ UpdateCall(props.id, "") \in Range(Suffix)
        /\ ~ErrorMessageChanged => Suffix = <<UpdateCall(props.id, "")>>

C3_Witness ==
    /\ IdChanged /\ ~ErrorMessageChanged
    /\ last.id = "f" /\ props.id = "g" /\ props.errorMessage = ""
    /\ Suffix = <<UpdateCall("g", "")>>

\* C4: unmounting a field whose errorMessage is non-empty makes exactly one
\* call, clearErrorState(X) with X the id at that moment, and no
\* updateErrorState at or after it, whatever changes came before.
C4_UnmountClearsCurrentId ==
    phase = "unmounted" /\ Truthy(props.errorMessage) =>
        /\ last.op = "unmount"
        /\ Suffix = <<ClearCall(props.id)>>

C4_Witness ==
    /\ phase = "unmounted"
    /\ idChanges >= 1 /\ props.id = "g" /\ errHist[1].id = "f"
    /\ props.errorMessage = "required"
    /\ Suffix = <<ClearCall("g")>>

\* C5: n errorMessage changes M1 .. Mn give exactly n updateErrorState calls
\* after the one made on mount, the k-th carrying Mk and the id the field has
\* at that change (an id change accounts for one further updateErrorState).
C5_OneUpdatePerMessageChange ==
    phase # "created" =>
        /\ Len(Updates(Log)) = Len(errHist) + idChanges
        /\ idChanges = 0 /\ phase = "mounted" =>
               Log = [k \in 1..Len(errHist) |->
                        UpdateCall(errHist[k].id, errHist[k].errorMessage)]
        /\ ErrorMessageChanged =>
               /\ UpdateCall(props.id, props.errorMessage) \in Range(Suffix)
               /\ ~IdChanged => Suffix = <<UpdateCall(props.id, props.errorMessage)>>
               /\ IdChanged => Updates(Suffix) =
                                 <<UpdateCall(props.id, props.errorMessage),
                                   UpdateCall(props.id, props.errorMessage)>>

C5_Witness ==
    /\ phase = "mounted" /\ idChanges = 0 /\ props.id = "f"
    /\ Len(errHist) = 3
    /\ errHist[1].errorMessage = "required"
    /\ errHist[2].errorMessage = ""
    /\ errHist[3].errorMessage = "invalid"
    /\ Log = <<UpdateCall("f", "required"), UpdateCall("f", ""), UpdateCall("f", "invalid")>>

\* C6 (as claimed, for a field whose ids were never empty): after every
\* reaction the aggregator's map holds no non-empty message under an id other
\* than the field's current id, and after unmount it holds no entry for the
\* field's last id.
C6_NoStaleEntry ==
    (phase # "created" /\ \A i \in DOMAIN Log : Log[i].fieldId # "") =>
        /\ \A k \in DOMAIN Entries : k # props.id => Entries[k] = ""
        /\ phase = "unmounted" => props.id \notin DOMAIN Entries

\* The ids in an aria-describedby value: its space-separated tokens.
RECURSIVE TokensFrom(_, _, _)
TokensFrom(str, i, cur) ==
    IF i > Len(str) THEN (IF cur = "" THEN <<>> ELSE <<cur>>)
    ELSE LET c == SubSeq(str, i, i)
         IN  IF c = " "
             THEN (IF cur = "" THEN <<>> ELSE <<cur>>) \o TokensFrom(str, i + 1, "")
             ELSE TokensFrom(str, i + 1, cur \o c)

Tokens(opt) == IF opt = Undefined THEN <<>> ELSE TokensFrom(opt[1], 1, "")

NoDuplicates(seq) == \A i, j \in DOMAIN seq : i # j => seq[i] # seq[j]

\* C7 (as claimed): describedBy is the order-preserving join of the tokens of
\* ariaDescribedby, helpTextId when help content is present and errorTextId
\* when errorMessage is non-empty, without labelId and without a repeated
\* token, and is undefined when no token remains.
C7_DescribedByTokens ==
    phase = "mounted" =>
        LET r == rendered["inForm"][1]
            toks == Tokens(r.describedBy)
            given == Tokens(vnode.ariaDescribedby)
                     \o (IF slots.helptext THEN <<props.id \o "-help">> ELSE <<>>)
                     \o (IF props.errorMessage # "" THEN <<props.id \o "-error">> ELSE <<>>)
        IN  /\ (props.id \o "-label") \notin Range(toks)
            /\ NoDuplicates(toks)
            /\ r.describedBy = Undefined <=> toks = <<>>
            /\ Range(toks) = Range(given) \ {props.id \o "-label"}
            /\ \A i, j \in DOMAIN toks : i < j =>
                   \E a, b \in DOMAIN given : a < b /\ given[a] = toks[i] /\ given[b] = toks[j]

\* C8: a field without an aggregator attempts no call, and renders and emits
\* what the field with an aggregator renders and emits.
C8_StandaloneSameMinusCalls ==
    /\ calls["standalone"] = <<>>
    /\ emitted["standalone"] = emitted["inForm"]
    /\ rendered["standalone"] = rendered["inForm"]

C8_Witness ==
    /\ phase = "unmounted" /\ idChanges >= 1 /\ Len(errHist) >= 2
    /\ Len(Log) >= 4
    /\ calls["standalone"] = <<>>
    /\ Len(emitted["standalone"]) = 1

\* C9: writing the value emits exactly one update:modelValue carrying the
\* new value and leaves the exposed value alone; the exposed value is the
\* modelValue the parent passed, and nothing but a write emits.
C9_ValueIsControlled ==
    /\ value(props) = vnode.modelValue
    /\ last.op = "set" =>
           /\ emitted["inForm"] =
                  Append(SubSeq(emitted["inForm"], 1, last.nEmitted),
                         [event |-> "update:modelValue", payload |-> last.arg])
           /\ value(props) = last.modelValue
    /\ last.op \in {"mount", "props", "unmount"} => Len(emitted["inForm"]) = last.nEmitted
    /\ last.op \in {"mount", "unmount"} => value(props) = last.modelValue

C9_Witness ==
    /\ last.op = "set" /\ last.arg = "x"
    /\ value(props) = ""
    /\ emitted["inForm"] = <<[event |-> "update:modelValue", payload |-> "x"]>>

\* C10: while the field is mounted the aggregator's map has an entry for the
\* field's current id and it is the field's current errorMessage, so the
\* entry is non-empty exactly when isInvalid.
C10_CurrentEntrySynchronized ==
    phase = "mounted" =>
        /\ props.id \in DOMAIN Entries
        /\ Entries[props.id] = props.errorMessage
        /\ Truthy(Entries[props.id]) <=> isInvalid(props)

C10_Witness ==
    /\ IdChanged /\ ErrorMessageChanged /\ last.order = "id-first"
    /\ last.id = "" /\ props.id = "g" /\ props.errorMessage = "invalid"
    /\ Entries["g"] = "invalid"

====
